---- MODULE Spec2Model ----
(***************************************************************************)
(* Vehicle Image Generator: the batch run that generates an image for each *)
(* vehicle record and writes the URL back to the record store.             *)
(* Two programs are modelled: the current file (processVehicles with the   *)
(* forceUpdate check, version "new") and the older VehicleImageGenerator.js*)
(* (processAllVehicles, version "old").  Every awaited remote call is one  *)
(* step; its outcome is chosen nondeterministically.                       *)
(***************************************************************************)
EXTENDS Integers, Sequences, FiniteSets, TLC

\* Number of records of the vehicle table (the README seeds 15).
NumVehicles == 2

\* Number of runs started one after the other on the same table.
MaxRuns == 2

\* Number of concurrent callers of updateVehicleImage.
NumCallers == 2

VehicleIds == 1..NumVehicles

\* The id one past the table: an id no record has.
UnknownId == NumVehicles + 1

\* SQL null / JS null of the vehiclegraphic column.
NULL == <<>>

requiredVars == {"SUPABASE_URL", "SUPABASE_ANON_KEY", "OPENAI_API_KEY"}

\* A supabase query resolves to {data, error} ("ok" / "error") or rejects.
StoreOutcomes == {"ok", "error", "throw"}

\* An openai call resolves or rejects.
ProviderOutcomes == {"ok", "throw"}

SeedUrl(id) == <<"seed", id>>
ProviderUrl(n) == <<"gen", n>>
ArgUrl == <<"arg", 0>>

\* data: null of a .single() read that found no row or failed.
NoRow == [vehicletype |-> NULL, vehiclegraphic |-> NULL, updated_at |-> 0]

VARIABLES
    version,    \* "new": processVehicles file, "old": VehicleImageGenerator.js
    entry,      \* the exported function the caller invoked
    env,        \* names of the environment variables that are set
    store,      \* the vehicle table: id -> row
    startStore, \* the table when the run started
    clock,      \* source of updated_at
    pc,         \* position of the run
    term,       \* "running", "returned" or "threw" (rejected promise)
    runMode,    \* "none", "incremental", "full", "update"
    dbOk,       \* old testConnection result
    vehicles,   \* the candidate array of the loop
    i,          \* loop index, 1-based
    uId, uUrl, uForce,  \* arguments of the current updateVehicleImage call
    ret,        \* result of the last updateVehicleImage call
    nextUrl,    \* number of URLs the provider has handed out
    log,        \* every remote call, report and delay of the run, in order
    runNo,      \* number of the current run of the process sequence
    prev,       \* how the previous run of the sequence went
    callers     \* concurrent updateVehicleImage calls: caller -> position, result

vars == <<version, entry, env, store, startStore, clock, pc, term, runMode,
          dbOk, vehicles, i, uId, uUrl, uForce, ret, nextUrl, log,
          runNo, prev, callers>>

Entry(op, id, res, url) == [op |-> op, id |-> id, res |-> res, url |-> url]

----------------------------------------------------------------------------
\* Pure pieces of the code

MissingVars(e) == requiredVars \ e

WithoutImagesAll(st) == DOMAIN st

WithoutImages(st) == {id \in DOMAIN st : st[id].vehiclegraphic = NULL}

AllIdsAscending(st) == [k \in 1..Cardinality(DOMAIN st) |-> k]

Orderings(S) ==
    {s \in [1..Cardinality(S) -> S] : \A a, b \in 1..Cardinality(S) : a # b => s[a] # s[b]}

SingleRow(st, id, o) == IF o = "ok" /\ id \in DOMAIN st THEN st[id] ELSE NoRow

CurrentMissingNever(current) == FALSE

CurrentMissing(current) == current = NoRow

ShouldSkipIgnoresImage(current, forceUpdate) == ~forceUpdate

ShouldSkipIgnoresForce(current, forceUpdate) == current.vehiclegraphic # NULL

ShouldSkip(current, forceUpdate) == current.vehiclegraphic # NULL /\ ~forceUpdate

StoreUpdateNoFilter(st, id, url, ts) ==
    [r \in DOMAIN st |-> [st[r] EXCEPT !.vehiclegraphic = url, !.updated_at = ts]]

StoreUpdateReplacesRow(st, id, url, ts) ==
    [r \in DOMAIN st |->
        IF r = id THEN [vehicletype |-> NULL, vehiclegraphic |-> url, updated_at |-> ts]
        ELSE st[r]]

StoreUpdateIfAbsent(st, id, url, ts) ==
    [r \in DOMAIN st |->
        IF r = id /\ st[r].vehiclegraphic = NULL
        THEN [st[r] EXCEPT !.vehiclegraphic = url, !.updated_at = ts]
        ELSE st[r]]

StoreUpdate(st, id, url, ts) ==
    [r \in DOMAIN st |->
        IF r = id THEN [st[r] EXCEPT !.vehiclegraphic = url, !.updated_at = ts]
        ELSE st[r]]

ForceFlagSame(onlyMissing) == onlyMissing

ForceFlag(onlyMissing) == ~onlyMissing

DelayNeeded(idx, n) == idx < n

OnRecordErrorBreak(idx, n) == n + 1

OnRecordError(idx, n) == idx + 1

StoreTestPassed(o) == o # "throw"

DbTestPassed(o) == o = "ok"

ChooseModeAlwaysIncremental(missing) == "incremental"

ChooseMode(missing) == IF missing # {} THEN "incremental" ELSE "full"

MainNoCatch(e) == "threw"

MainCatch(e) == IF e = "main" THEN "returned" ELSE "threw"

----------------------------------------------------------------------------
\* Where control goes when processVehicles / processAllVehicles returns

ProcReturn == [pc |-> IF entry = "main" THEN "display" ELSE "done",
               i |-> i,
               term |-> IF entry = "main" THEN term ELSE "returned"]

ProcThrow == [pc |-> "done", i |-> i, term |-> MainCatch(entry)]

Advance(j) == IF j > Len(vehicles) THEN [ProcReturn EXCEPT !.i = j]
              ELSE [pc |-> "gen", i |-> j, term |-> term]

IterationFailedStillUpdates ==
    IF pc = "gen"
    THEN [pc |-> IF version = "new" THEN "upd_read" ELSE "upd_write", i |-> i, term |-> term]
    ELSE Advance(OnRecordError(i, Len(vehicles)))

IterationFailed == Advance(OnRecordError(i, Len(vehicles)))

IterationDone == IF DelayNeeded(i, Len(vehicles))
                 THEN [pc |-> "delay", i |-> i, term |-> term]
                 ELSE Advance(i + 1)

UpdateResult(r) ==
    IF runMode = "update"
    THEN [pc |-> "done", i |-> i, term |-> IF r = "threw" THEN "threw" ELSE "returned"]
    ELSE IF r = "threw" THEN IterationFailed ELSE IterationDone

Goto(next) == /\ pc' = next.pc
              /\ i' = next.i
              /\ term' = next.term

----------------------------------------------------------------------------
\* No run came before the first one.
NoPrev == [mode |-> "none", entry |-> "none", successful |-> FALSE, wrote |-> FALSE]

Entries(v) == IF v = "new"
              THEN {"main", "processOnlyMissingImages", "regenerateAllImages", "updateVehicleImage"}
              ELSE {"main", "processAllVehicles", "updateVehicleImage"}

\* Seed data: each record either has an image already or has none.
Tables == [VehicleIds -> BOOLEAN]

Init ==
    /\ version \in {"new", "old"}
    /\ entry \in Entries(version)
    /\ env \in SUBSET requiredVars
    /\ \E t \in Tables :
          store = [id \in VehicleIds |->
                     [vehicletype |-> <<"type", id>>,
                      vehiclegraphic |-> IF t[id] THEN SeedUrl(id) ELSE NULL,
                      updated_at |-> 0]]
    /\ startStore = store
    /\ clock = 0
    /\ pc = "start"
    /\ term = "running"
    /\ runMode = "none"
    /\ dbOk = TRUE
    /\ vehicles = <<>>
    /\ i = 0
    /\ IF entry = "updateVehicleImage"
       THEN /\ uId \in VehicleIds \cup {UnknownId}
            /\ uUrl = ArgUrl
            /\ uForce \in (IF version = "new" THEN BOOLEAN ELSE {FALSE})
       ELSE /\ uId = 0
            /\ uUrl = NULL
            /\ uForce = FALSE
    /\ ret = "none"
    /\ nextUrl = 0
    /\ log = <<>>
    /\ runNo = 1
    /\ prev = NoPrev
    /\ callers = <<>>

----------------------------------------------------------------------------
\* The caller invokes the entry point.
Start ==
    /\ pc = "start"
    /\ IF entry = "updateVehicleImage"
       THEN /\ runMode' = "update"
            /\ pc' = IF version = "new" THEN "upd_read" ELSE "upd_write"
       ELSE IF version = "new" /\ entry = "main"
       THEN /\ runMode' = "none"
            /\ pc' = "main_fetch"
       ELSE /\ runMode' = IF entry = "regenerateAllImages" THEN "full" ELSE "incremental"
            /\ pc' = "tc_env"
    /\ UNCHANGED <<callers, runNo, prev, version, entry, env, store, startStore, clock, term, dbOk,
                   vehicles, i, uId, uUrl, uForce, ret, nextUrl, log>>

\* new main: the initial getVehiclesWithoutImages and the choice of mode.
MainSelectMode ==
    /\ version = "new" /\ pc = "main_fetch"
    /\ \E o \in StoreOutcomes :
          /\ log' = Append(log, Entry("main.fetch", 0, o, NULL))
          /\ IF o = "ok"
             THEN /\ runMode' = ChooseMode(WithoutImages(store))
                  /\ pc' = "tc_env"
                  /\ term' = term
             ELSE /\ runMode' = runMode
                  /\ pc' = "done"
                  /\ term' = MainCatch(entry)
    /\ UNCHANGED <<callers, runNo, prev, version, entry, env, store, startStore, clock, dbOk,
                   vehicles, i, uId, uUrl, uForce, ret, nextUrl>>

\* new testConnections: the environment check.
TestConnectionsEnv ==
    /\ version = "new" /\ pc = "tc_env"
    /\ IF MissingVars(env) # {}
       THEN /\ log' = Append(log, Entry("reportMissing", 0, "ok", NULL))
            /\ Goto(ProcReturn)
       ELSE /\ log' = log
            /\ Goto([ProcReturn EXCEPT !.pc = "tc_store", !.term = term])
    /\ UNCHANGED <<callers, runNo, prev, version, entry, env, store, startStore, clock, runMode, dbOk,
                   vehicles, uId, uUrl, uForce, ret, nextUrl>>

\* new testConnections: the store read whose result is discarded.
TestConnectionsStore ==
    /\ version = "new" /\ pc = "tc_store"
    /\ \E o \in StoreOutcomes :
          /\ log' = Append(log, Entry("testStore", 0, o, NULL))
          /\ IF StoreTestPassed(o)
             THEN Goto([ProcReturn EXCEPT !.pc = "tc_provider", !.term = term])
             ELSE Goto(ProcReturn)
    /\ UNCHANGED <<callers, runNo, prev, version, entry, env, store, startStore, clock, runMode, dbOk,
                   vehicles, uId, uUrl, uForce, ret, nextUrl>>

\* new testConnections: openai.models.list().
TestConnectionsProvider ==
    /\ version = "new" /\ pc = "tc_provider"
    /\ \E o \in ProviderOutcomes :
          /\ log' = Append(log, Entry("testProvider", 0, o, NULL))
          /\ IF o = "ok"
             THEN Goto([ProcReturn EXCEPT !.pc = "select", !.term = term])
             ELSE Goto(ProcReturn)
    /\ UNCHANGED <<callers, runNo, prev, version, entry, env, store, startStore, clock, runMode, dbOk,
                   vehicles, uId, uUrl, uForce, ret, nextUrl>>

\* old testEnvironmentVariables and the early return of processAllVehicles.
TestEnvironmentVariables ==
    /\ version = "old" /\ pc = "tc_env"
    /\ IF MissingVars(env) # {}
       THEN /\ log' = Append(log, Entry("reportMissing", 0, "ok", NULL))
            /\ Goto(ProcReturn)
       ELSE /\ log' = log
            /\ Goto([ProcReturn EXCEPT !.pc = "tc_store", !.term = term])
    /\ UNCHANGED <<callers, runNo, prev, version, entry, env, store, startStore, clock, runMode, dbOk,
                   vehicles, uId, uUrl, uForce, ret, nextUrl>>

\* old testConnection.
TestConnection ==
    /\ version = "old" /\ pc = "tc_store"
    /\ \E o \in StoreOutcomes :
          /\ log' = Append(log, Entry("testStore", 0, o, NULL))
          /\ dbOk' = DbTestPassed(o)
    /\ pc' = "tc_provider"
    /\ UNCHANGED <<callers, runNo, prev, version, entry, env, store, startStore, clock, term, runMode,
                   vehicles, i, uId, uUrl, uForce, ret, nextUrl>>

\* old testOpenAIConnection and the check of both results.
TestOpenAIConnection ==
    /\ version = "old" /\ pc = "tc_provider"
    /\ \E o \in ProviderOutcomes :
          /\ log' = Append(log, Entry("testProvider", 0, o, NULL))
          /\ IF ~dbOk \/ o # "ok"
             THEN Goto(ProcReturn)
             ELSE Goto([ProcReturn EXCEPT !.pc = "select", !.term = term])
    /\ UNCHANGED <<callers, runNo, prev, version, entry, env, store, startStore, clock, runMode, dbOk,
                   vehicles, uId, uUrl, uForce, ret, nextUrl>>

\* The candidate fetch: getVehiclesWithoutImages (store-defined order) or
\* getAllVehicles (ascending id), and the empty-set return.
SelectCandidates ==
    /\ pc = "select"
    /\ \E o \in StoreOutcomes :
          /\ log' = Append(log, Entry("select", 0, o, NULL))
          /\ IF o = "ok"
             THEN \E vs \in (IF runMode = "incremental"
                             THEN Orderings(WithoutImages(store))
                             ELSE {AllIdsAscending(store)}) :
                     /\ vehicles' = vs
                     /\ IF Len(vs) = 0
                        THEN Goto(ProcReturn)
                        ELSE Goto([pc |-> "gen", i |-> 1, term |-> term])
             ELSE /\ vehicles' = vehicles
                  /\ IF version = "new" THEN Goto(ProcThrow) ELSE Goto(ProcReturn)
    /\ UNCHANGED <<callers, runNo, prev, version, entry, env, store, startStore, clock, runMode, dbOk,
                   uId, uUrl, uForce, ret, nextUrl>>

\* generateVehicleImage for vehicles[i]; a rejection lands in the loop's catch.
GenerateVehicleImage ==
    /\ pc = "gen"
    /\ \E o \in ProviderOutcomes :
          IF o = "ok"
          THEN /\ log' = Append(log, Entry("generate", vehicles[i], o, ProviderUrl(nextUrl + 1)))
               /\ nextUrl' = nextUrl + 1
               /\ uId' = vehicles[i]
               /\ uUrl' = ProviderUrl(nextUrl + 1)
               /\ uForce' = IF version = "new" THEN ForceFlag(runMode = "incremental") ELSE FALSE
               /\ ret' = "none"
               /\ Goto([pc |-> IF version = "new" THEN "upd_read" ELSE "upd_write",
                        i |-> i, term |-> term])
          ELSE /\ log' = Append(log, Entry("generate", vehicles[i], o, NULL))
               /\ ret' = "none"
               /\ Goto(IterationFailed)
               /\ UNCHANGED <<nextUrl, uId, uUrl, uForce>>
    /\ UNCHANGED <<callers, runNo, prev, version, entry, env, store, startStore, clock, runMode, dbOk, vehicles>>

\* new updateVehicleImage: the .single() read, the not-found throw and the
\* already-has-an-image return.
UpdateVehicleImageCheck ==
    /\ version = "new" /\ pc = "upd_read"
    /\ \E o \in StoreOutcomes :
          LET current == SingleRow(store, uId, o) IN
          /\ log' = Append(log, Entry("read", uId, o, NULL))
          /\ IF o = "throw" \/ CurrentMissing(current)
             THEN /\ ret' = "threw"
                  /\ Goto(UpdateResult("threw"))
             ELSE IF ShouldSkip(current, uForce)
             THEN /\ ret' = "false"
                  /\ Goto(UpdateResult("false"))
             ELSE /\ ret' = ret
                  /\ Goto([pc |-> "upd_write", i |-> i, term |-> term])
    /\ UNCHANGED <<callers, runNo, prev, version, entry, env, store, startStore, clock, runMode, dbOk,
                   vehicles, uId, uUrl, uForce, nextUrl>>

\* new updateVehicleImage: the update by id.
UpdateVehicleImageWrite ==
    /\ version = "new" /\ pc = "upd_write"
    /\ \E o \in StoreOutcomes :
          /\ log' = Append(log, Entry("update", uId, o, uUrl))
          /\ IF o = "ok"
             THEN /\ store' = StoreUpdate(store, uId, uUrl, clock + 1)
                  /\ clock' = clock + 1
                  /\ ret' = "true"
                  /\ Goto(UpdateResult("true"))
             ELSE /\ UNCHANGED <<store, clock>>
                  /\ ret' = "threw"
                  /\ Goto(UpdateResult("threw"))
    /\ UNCHANGED <<callers, runNo, prev, version, entry, env, startStore, runMode, dbOk,
                   vehicles, uId, uUrl, uForce, nextUrl>>

\* old updateVehicleImage: unconditional update by id, returns the rows.
UpdateVehicleImageOld ==
    /\ version = "old" /\ pc = "upd_write"
    /\ \E o \in StoreOutcomes :
          /\ log' = Append(log, Entry("update", uId, o, uUrl))
          /\ IF o = "ok"
             THEN /\ store' = StoreUpdate(store, uId, uUrl, clock + 1)
                  /\ clock' = clock + 1
                  /\ ret' = "data"
                  /\ Goto(UpdateResult("data"))
             ELSE /\ UNCHANGED <<store, clock>>
                  /\ ret' = "threw"
                  /\ Goto(UpdateResult("threw"))
    /\ UNCHANGED <<callers, runNo, prev, version, entry, env, startStore, runMode, dbOk,
                   vehicles, uId, uUrl, uForce, nextUrl>>

\* The 2 second wait at the end of the try block.
PacingDelay ==
    /\ pc = "delay"
    /\ log' = Append(log, Entry("delay", vehicles[i], "ok", NULL))
    /\ Goto(Advance(i + 1))
    /\ UNCHANGED <<callers, runNo, prev, version, entry, env, store, startStore, clock, runMode, dbOk,
                   vehicles, uId, uUrl, uForce, ret, nextUrl>>

\* displayResults: getAllVehicles inside its own try/catch, then main returns.
DisplayResults ==
    /\ pc = "display"
    /\ \E o \in StoreOutcomes :
          log' = Append(log, Entry("display.fetch", 0, o, NULL))
    /\ pc' = "done"
    /\ term' = "returned"
    /\ UNCHANGED <<callers, runNo, prev, version, entry, env, store, startStore, clock, runMode, dbOk,
                   vehicles, i, uId, uUrl, uForce, ret, nextUrl>>

Next ==
    \/ Start
    \/ MainSelectMode
    \/ TestConnectionsEnv
    \/ TestConnectionsStore
    \/ TestConnectionsProvider
    \/ TestEnvironmentVariables
    \/ TestConnection
    \/ TestOpenAIConnection
    \/ SelectCandidates
    \/ GenerateVehicleImage
    \/ UpdateVehicleImageCheck
    \/ UpdateVehicleImageWrite
    \/ UpdateVehicleImageOld
    \/ PacingDelay
    \/ DisplayResults

Spec == Init /\ [][Next]_vars

----------------------------------------------------------------------------
TypeOK ==
    /\ version \in {"new", "old"}
    /\ pc \in {"start", "main_fetch", "tc_env", "tc_store", "tc_provider", "select",
               "gen", "upd_read", "upd_write", "delay", "display", "done"}
    /\ term \in {"running", "returned", "threw"}
    /\ runMode \in {"none", "incremental", "full", "update"}
    /\ ret \in {"none", "true", "false", "data", "threw"}
    /\ DOMAIN store = VehicleIds

----------------------------------------------------------------------------
\* Reading the log of a run

LogIdx == 1..Len(log)

IsGenerate(e) == e.op = "generate"

GenIds == LET g == SelectSeq(log, IsGenerate) IN [k \in 1..Len(g) |-> g[k].id]

Delays == {k \in LogIdx : log[k].op = "delay"}

SomeCallFailed == \E k \in LogIdx : log[k].res # "ok"

\* The run is over, nothing was reported missing and no remote call failed.
Successful == pc = "done" /\ MissingVars(env) = {} /\ ~SomeCallFailed

\* The per-record loop was entered and has been left.
LoopDone == Len(vehicles) > 0 /\ pc \in {"display", "done"}

PresentAtStart == {id \in VehicleIds : startStore[id].vehiclegraphic # NULL}

AbsentAtStart == {id \in VehicleIds : startStore[id].vehiclegraphic = NULL}

----------------------------------------------------------------------------
\* C1: in every state of an incremental run, each record whose image
\* reference was present when the run started still has that same reference,
\* whatever calls failed.
C1_IncrementalKeepsPresent ==
    runMode = "incremental" =>
        \A id \in PresentAtStart :
            store[id].vehiclegraphic = startStore[id].vehiclegraphic

\* An incremental run that wrote an image while another record already had one
\* and while some call failed.
C1_Witness ==
    /\ runMode = "incremental" /\ pc = "done"
    /\ PresentAtStart # {}
    /\ \E k \in LogIdx : log[k].op = "update" /\ log[k].res = "ok"

\* C2: after an incremental run in which every provider and store call
\* succeeded, every record that had no image at the start has a non-null
\* image reference that is a URL the provider returned during the run.
C2_SuccessfulIncrementalFillsAll ==
    (runMode = "incremental" /\ Successful) =>
        \A id \in AbsentAtStart :
            /\ store[id].vehiclegraphic # NULL
            /\ \E k \in LogIdx : /\ log[k].op = "generate"
                                  /\ log[k].res = "ok"
                                  /\ log[k].url = store[id].vehiclegraphic

\* A successful incremental run over a table where every record lacked an image.
C2_Witness ==
    /\ runMode = "incremental" /\ Successful
    /\ AbsentAtStart = VehicleIds
    /\ Len(vehicles) = NumVehicles

\* C3: a full-regeneration run without any failed call ends with every
\* record holding the URL the provider returned for that record in this run.
C3_FullRegenerationOverwritesAll ==
    (runMode = "full" /\ Successful) =>
        \A id \in VehicleIds :
            \E k \in LogIdx : /\ log[k].op = "generate"
                              /\ log[k].id = id
                              /\ log[k].res = "ok"
                              /\ store[id].vehiclegraphic = log[k].url

\* A successful full regeneration of a table with both kinds of record.
C3_Witness ==
    /\ runMode = "full" /\ Successful
    /\ PresentAtStart # {} /\ AbsentAtStart # {}
    /\ Len(vehicles) = NumVehicles

\* C4: updateVehicleImage(id, url, forceUpdate) with an id no record has
\* never changes the store and ends by throwing, for either forceUpdate.
C4_UnknownIdThrows ==
    (version = "new" /\ entry = "updateVehicleImage" /\ uId \notin VehicleIds) =>
        /\ store = startStore
        /\ pc = "done" => (term = "threw" /\ ret = "threw")

\* The call with an unknown id and forceUpdate = true has ended, its read
\* having been answered by the store.
C4_Witness ==
    /\ version = "new" /\ entry = "updateVehicleImage" /\ uId \notin VehicleIds
    /\ uForce /\ pc = "done"
    /\ Len(log) = 1 /\ log[1].op = "read" /\ log[1].res = "ok"

C6_OneGenerationPerCandidate ==
    /\ Len(GenIds) <= Len(vehicles)
    /\ \A k \in 1..Len(GenIds) : GenIds[k] = vehicles[k]
    /\ LoopDone => GenIds = vehicles

\* The loop is over although the first of several candidates failed.
C6_Witness ==
    /\ LoopDone /\ Len(vehicles) >= 2
    /\ \E k \in LogIdx : /\ log[k].op \in {"generate", "read", "update"}
                          /\ log[k].id = vehicles[1]
                          /\ log[k].res # "ok"

\* C7 as claimed: a finished loop over N >= 1 candidates made exactly N-1
\* pacing delays, whatever the per-record outcomes were.
C7_ExactlyNMinusOneDelays ==
    LoopDone => Cardinality(Delays) = Len(vehicles) - 1

\* C8 as claimed: with a required configuration value missing, a run started
\* through main issues no store call and no provider call at all.
C8_MissingConfigNoRemoteCall ==
    (entry = "main" /\ MissingVars(env) # {}) =>
        \A k \in LogIdx : log[k].op \in {"reportMissing", "delay"}

\* C9 as claimed: once a reachability test has failed (error result or
\* rejection), no candidate fetch, generation call or store write follows.
C9_FailedTestHaltsRun ==
    \A k \in LogIdx :
        (log[k].op \in {"testStore", "testProvider"} /\ log[k].res # "ok") =>
            \A j \in LogIdx : j > k => log[j].op \notin {"select", "generate", "update"}

\* C10: a run started through main never ends by throwing: whatever call
\* failed, main returns normally.
C10_MainNeverThrows ==
    entry = "main" => (term # "threw" /\ (pc = "done" => term = "returned"))

\* A run of main that is over and in which some remote call failed.
C10_Witness ==
    /\ entry = "main" /\ pc = "done" /\ term = "returned"
    /\ SomeCallFailed

\* C13 as claimed: a run of main that passed the configuration and
\* connectivity checks always reaches the completion report, the final
\* fetch of all records.
C13_PassedChecksReachReport ==
    (/\ entry = "main" /\ pc = "done"
     /\ \E k \in LogIdx : log[k].op = "select") =>
        \E k \in LogIdx : log[k].op = "display.fetch"

\* The update attempts of the per-record loop, as positions of the log.
UpdateAttempts == {k \in LogIdx : log[k].op \in {"read", "update"}}

\* The last generation call before position k of the log (0 if none).
LastGenerateBefore(k) ==
    LET g == {j \in 1..(k - 1) : log[j].op = "generate"}
    IN IF g = {} THEN 0 ELSE CHOOSE j \in g : \A h \in g : h <= j

\* C16: in a loop run every store call of updateVehicleImage follows, with
\* no other generation call in between, a generation call for the same
\* candidate that returned a URL; the URL written is that URL; there are at
\* most N updates; and while a generation call is about to start no update
\* of an earlier candidate is pending.
C16_SequentialPairedProcessing ==
    runMode \in {"incremental", "full"} =>
        /\ \A k \in UpdateAttempts :
              LET g == LastGenerateBefore(k) IN
              /\ g # 0
              /\ log[g].res = "ok"
              /\ log[g].id = log[k].id
              /\ log[k].op = "update" => log[k].url = log[g].url
              /\ \E n \in 1..Len(vehicles) :
                    /\ vehicles[n] = log[k].id
                    /\ Cardinality({j \in 1..g : log[j].op = "generate"}) = n
        /\ Cardinality({k \in LogIdx : log[k].op = "update"}) <= Len(vehicles)
        /\ pc = "gen" =>
              Cardinality({k \in LogIdx : log[k].op = "generate"}) = i - 1

\* A finished loop in which one candidate's generation failed and another
\* candidate's URL was written.
C16_Witness ==
    /\ LoopDone /\ Len(vehicles) >= 2
    /\ \E k \in LogIdx : log[k].op = "generate" /\ log[k].res # "ok"
    /\ \E k \in LogIdx : log[k].op = "update" /\ log[k].res = "ok"

----------------------------------------------------------------------------
\* A sequence of runs on the same table: `node VehicleImageGenerator.js`
\* (or an exported run method) is started again after the previous run ended.

RunEntries(v) == Entries(v) \ {"updateVehicleImage"}

Restart ==
    /\ pc = "done"
    /\ runNo < MaxRuns
    /\ runNo' = runNo + 1
    /\ prev' = [mode |-> runMode, entry |-> entry, successful |-> Successful,
                wrote |-> \E k \in LogIdx : log[k].op = "update" /\ log[k].res = "ok"]
    /\ entry' \in RunEntries(version)
    /\ startStore' = store
    /\ pc' = "start"
    /\ term' = "running"
    /\ runMode' = "none"
    /\ dbOk' = TRUE
    /\ vehicles' = <<>>
    /\ i' = 0
    /\ uId' = 0
    /\ uUrl' = NULL
    /\ uForce' = FALSE
    /\ ret' = "none"
    /\ log' = <<>>
    /\ UNCHANGED <<version, env, store, clock, nextUrl, callers>>

NextRuns == Next \/ Restart

SpecRuns == Init /\ [][NextRuns]_vars

\* C12: an incremental run started after an incremental run that left no
\* record without an image has no candidates, makes no provider call and no
\* store write and leaves the table as it found it; and in any re-run in
\* incremental mode the candidates fetched are exactly the records still
\* without an image, each once.
C12_RerunSkipsCompleted ==
    (runNo >= 2 /\ runMode = "incremental") =>
        /\ (prev.mode = "incremental" /\ AbsentAtStart = {}) =>
              /\ vehicles = <<>>
              /\ \A k \in LogIdx : log[k].op \notin {"generate", "read", "update"}
              /\ store = startStore
        /\ (\E k \in LogIdx : log[k].op = "select" /\ log[k].res = "ok") =>
              /\ {vehicles[k] : k \in 1..Len(vehicles)} = AbsentAtStart
              /\ Len(vehicles) = Cardinality(AbsentAtStart)

\* An incremental re-run has fetched its (empty) candidate set after an
\* incremental run that wrote images and completed the table.
C12_Witness ==
    /\ runNo = 2 /\ runMode = "incremental" /\ pc = "done"
    /\ prev.mode = "incremental" /\ prev.wrote
    /\ AbsentAtStart = {}
    /\ \E k \in LogIdx : log[k].op = "select" /\ log[k].res = "ok"

\* C14: in every state of any sequence of runs the table has the records it
\* started with, each with its category label; no step turns a present image
\* reference into an absent one; and an image reference changed by a step of
\* an incremental or full-regeneration run is a URL the provider returned in
\* that run.
C14_OnlyImageReferenceIsSet ==
    /\ [](/\ DOMAIN store = VehicleIds
          /\ \A id \in VehicleIds : store[id].vehicletype = <<"type", id>>)
    /\ [][\A id \in VehicleIds :
            /\ store[id].vehiclegraphic # NULL => store'[id].vehiclegraphic # NULL
            /\ (/\ store'[id].vehiclegraphic # store[id].vehiclegraphic
                /\ runMode \in {"incremental", "full"}) =>
                  \E k \in 1..Len(log') : /\ log'[k].op = "generate"
                                          /\ log'[k].res = "ok"
                                          /\ log'[k].url = store'[id].vehiclegraphic]_vars

\* A second run, a full regeneration, has overwritten an image that the
\* first run had written.
C14_Witness ==
    /\ runNo = 2 /\ runMode = "full" /\ prev.wrote
    /\ \E k \in LogIdx : log[k].op = "update" /\ log[k].res = "ok"
    /\ \E id \in VehicleIds : /\ startStore[id].vehiclegraphic # NULL
                              /\ store[id].vehiclegraphic # startStore[id].vehiclegraphic

\* C15: new main runs in incremental mode exactly when the table it fetched
\* has a record without an image and in full-regeneration mode otherwise; so
\* a successful run of main on a table where every record has an image
\* generates for every record and replaces every image reference, and the
\* second of two consecutive successful runs of main changes the table the
\* first one left.
C15_MainModeFromStoreContents ==
    (version = "new" /\ entry = "main") =>
        /\ runMode # "none" =>
              runMode = (IF AbsentAtStart # {} THEN "incremental" ELSE "full")
        /\ (Successful /\ AbsentAtStart = {}) =>
              /\ GenIds = AllIdsAscending(store)
              /\ \A id \in VehicleIds :
                    store[id].vehiclegraphic # startStore[id].vehiclegraphic
        /\ (runNo >= 2 /\ prev.entry = "main" /\ prev.successful /\ Successful) =>
              store # startStore

\* Two consecutive successful runs of new main, the first one incremental.
C15_Witness ==
    /\ version = "new" /\ entry = "main" /\ runNo = 2
    /\ prev.entry = "main" /\ prev.successful /\ prev.mode = "incremental"
    /\ Successful /\ runMode = "full"

----------------------------------------------------------------------------
\* Concurrent callers of the new updateVehicleImage on the same record: the
\* existence check and the update are two awaited store calls, so the calls
\* of different callers interleave between them.

Callers == 1..NumCallers

CallerUrl(c) == <<"caller", c>>

InitRace ==
    /\ version = "new"
    /\ entry = "updateVehicleImage"
    /\ env = requiredVars
    /\ \E t \in Tables :
          store = [id \in VehicleIds |->
                     [vehicletype |-> <<"type", id>>,
                      vehiclegraphic |-> IF t[id] THEN SeedUrl(id) ELSE NULL,
                      updated_at |-> 0]]
    /\ startStore = store
    /\ clock = 0
    /\ pc = "race"
    /\ term = "running"
    /\ runMode = "update"
    /\ dbOk = TRUE
    /\ vehicles = <<>>
    /\ i = 0
    /\ uId \in VehicleIds \cup {UnknownId}
    /\ uUrl = NULL
    /\ uForce \in BOOLEAN
    /\ ret = "none"
    /\ nextUrl = 0
    /\ log = <<>>
    /\ runNo = 1
    /\ prev = NoPrev
    /\ callers = [c \in Callers |-> [pc |-> "check", ret |-> "none"]]

\* One caller's .single() read and the tests on its result.
RaceCheck ==
    \E c \in Callers :
        /\ callers[c].pc = "check"
        /\ \E o \in StoreOutcomes :
              LET current == SingleRow(store, uId, o) IN
              /\ log' = Append(log, Entry("read", uId, o, CallerUrl(c)))
              /\ callers' = [callers EXCEPT ![c] =
                    IF o = "throw" \/ CurrentMissing(current)
                    THEN [pc |-> "done", ret |-> "threw"]
                    ELSE IF ShouldSkip(current, uForce)
                    THEN [pc |-> "done", ret |-> "false"]
                    ELSE [pc |-> "write", ret |-> "none"]]
        /\ UNCHANGED <<version, entry, env, store, startStore, clock, pc, term,
                       runMode, dbOk, vehicles, i, uId, uUrl, uForce, ret,
                       nextUrl, runNo, prev>>

\* One caller's update by id.
RaceWrite ==
    \E c \in Callers :
        /\ callers[c].pc = "write"
        /\ \E o \in StoreOutcomes :
              /\ log' = Append(log, Entry("update", uId, o, CallerUrl(c)))
              /\ IF o = "ok"
                 THEN /\ store' = StoreUpdate(store, uId, CallerUrl(c), clock + 1)
                      /\ clock' = clock + 1
                      /\ callers' = [callers EXCEPT ![c] = [pc |-> "done", ret |-> "true"]]
                 ELSE /\ UNCHANGED <<store, clock>>
                      /\ callers' = [callers EXCEPT ![c] = [pc |-> "done", ret |-> "threw"]]
        /\ UNCHANGED <<version, entry, env, startStore, pc, term,
                       runMode, dbOk, vehicles, i, uId, uUrl, uForce, ret,
                       nextUrl, runNo, prev>>

NextRace == RaceCheck \/ RaceWrite

SpecRace == InitRace /\ [][NextRace]_vars

\* The successful updates of the log, in order.
OkWrites == {k \in LogIdx : log[k].op = "update" /\ log[k].res = "ok"}

\* C11: with forceUpdate = false on a record whose image reference is
\* absent, a caller that passed the check writes whatever the record holds
\* by then: every caller whose update succeeded returned true, and the
\* record always holds the URL of the latest successful write, so a later
\* write replaces the reference an earlier caller has set.
C11_CheckThenWriteRace ==
    (~uForce /\ uId \in VehicleIds /\ startStore[uId].vehiclegraphic = NULL) =>
        /\ OkWrites # {} =>
              LET last == CHOOSE k \in OkWrites : \A j \in OkWrites : j <= k
              IN store[uId].vehiclegraphic = log[last].url
        /\ Cardinality(OkWrites) =
              Cardinality({c \in Callers : callers[c].ret = "true"})

\* Two callers with forceUpdate = false both returned true on a record that
\* had no image: the second write replaced the first caller's reference.
C11_Witness ==
    /\ ~uForce /\ uId \in VehicleIds /\ startStore[uId].vehiclegraphic = NULL
    /\ Cardinality(OkWrites) >= 2
    /\ \A c \in Callers : callers[c].ret = "true"
    /\ \E k \in OkWrites : log[k].url # store[uId].vehiclegraphic
====
